---- MODULE Spec2Model ----
(***************************************************************************)
(* A model of marvin-recipes' text chunker,                                *)
(* src/src/marvin_recipes/utilities/strings.py: split_text and the         *)
(* tokenize / detokenize helpers it is built on, and of the markdown       *)
(* minimap and the excerpts of src/src/marvin-recipes/models/documents.py. *)
(*                                                                         *)
(* Text is a sequence of characters.  The tokenizer (tiktoken's            *)
(* cl100k_base, a byte-level BPE) is modelled by what it does to the text: *)
(* tokens are byte strings, a token may hold several characters ("ab") and *)
(* a multi-byte character may be spread over several tokens ("U" is the    *)
(* two tokens "U1" "U2"), and decoding is UTF-8 decoding with              *)
(* errors="replace": bytes that do not form a whole character decode to    *)
(* U+FFFD, written "?" here.                                               *)
(*                                                                         *)
(* Floats are exact rationals [num, den]; the values used (multiples of    *)
(* 1/4, and the default 0.1 with chunk sizes below 10) are ones for which  *)
(* Python's float product and comparison agree with the exact ones.        *)
(***************************************************************************)
EXTENDS Integers, Sequences, FiniteSets, TLC

\* Bounds of the model.
MaxLen == 4
MaxChunk == 4
MaxLines == 4
MaxQuery == 20
MaxDocLines == 3
MaxDerivations == 2
MaxRequests == 2
MaxEnters == 2
MaxMessages == 3
MaxMatches == 3
MaxPages == 4
MaxLoaders == 4
MaxBatch == 3

VARIABLES
    text,                  \* argument: the text to split
    chunk_size,            \* argument
    chunk_overlap,         \* argument, None or a fraction
    last_chunk_threshold,  \* argument, None or a fraction
    return_index,          \* argument
    tokens,                \* local: tokenize(text)
    chunks,                \* local: list of (token list, index)
    i,                     \* local: the loop variable of the for statement
    pc,                    \* position in split_text
    result,                \* the returned list, once pc = "done"
    error                  \* the exception raised, once pc = "error"

\* create_minimap_fn and the function it returns
VARIABLES
    content,               \* argument: the markdown text
    lines,                 \* content.splitlines()
    line_no,               \* how many lines the for statement has taken
    scan,                  \* locals: minimap, current_stack, characters,
                           \* in_code_block, and the dicts they refer to
    mpc,                   \* position in create_minimap_fn / get_location_fn
    lookup_n,              \* argument n of the call of get_location_fn
    lookup_out             \* what that call returned or raised

\* document_to_excerpts and the _create_excerpt tasks it gathers
VARIABLES
    document,              \* argument: id, text, metadata.link, keywords
    chunk_tokens,          \* argument
    excerpt_overlap,       \* argument overlap
    epc,                   \* position in document_to_excerpts
    tasks,                 \* the _create_excerpt coroutines handed to gather
    completed,             \* the tasks that have finished, in that order
    excerpts,              \* the returned list, once epc = "done"
    builds                 \* history: the calls of create_minimap_fn so far

\* The slackbot of src/examples/slackbot
VARIABLES
    variant,               \* the module that is served: chatbot.py or slackbot.py
    requests,              \* the calls of handle_message, in order of arrival
    bg,                    \* the generate_ai_response tasks, in order of creation
    CACHE,                 \* the module's CACHE: thread key -> history
    posted                 \* the messages posted to Slack, in order

\* WatchLLM of src/examples/flows/watch_llm.py
VARIABLES
    overrides,             \* the subclasses that define the method themselves
    cls_dict,              \* each class's own attribute of the method's name
    patched_methods,       \* self._patched_methods
    to_patch,              \* __enter__: the classes its loop has yet to take
    to_reset,              \* __exit__: the entries its loop has yet to take
    wpc,                   \* position: outside, entering, inside, exiting
    enters                 \* the calls of __enter__ so far

\* search_slack_messages of src/src/marvin_recipes/utilities/slack.py
VARIABLES
    max_messages,          \* argument
    channel,               \* argument
    all_messages,          \* local
    next_cursor,           \* local
    sent,                  \* the params of the page requests made, in order
    spc,                   \* position in search_slack_messages
    found                  \* the returned list, once spc = "done"

\* MultiLoader.load of src/src/marvin_recipes/loaders/base.py
VARIABLES
    loaders,               \* self.loaders: what each loader's load() returns
    batch_size,            \* argument
    batch_no,              \* the batch the comprehension is at, from 1
    lstate,                \* each loader's load(): idle, created, loading, done
    finish_order,          \* the loaders of the batch at hand, as they finish
    loaded,                \* the documents of the batches gathered so far
    lpc                    \* position in MultiLoader.load

chunkerVars == <<text, chunk_size, chunk_overlap, last_chunk_threshold,
                 return_index, tokens, chunks, i, pc, result, error>>
minimapVars == <<content, lines, line_no, scan, mpc, lookup_n, lookup_out>>
excerptVars == <<document, chunk_tokens, excerpt_overlap, epc, tasks, completed,
                 excerpts, builds>>
slackVars == <<variant, requests, bg, CACHE, posted>>
\* The variables of the examples and of the other utilities.
watchVars == <<overrides, cls_dict, patched_methods, to_patch, to_reset, wpc,
               enters>>
searchVars == <<max_messages, channel, all_messages, next_cursor, sent, spc,
                found>>
loaderVars == <<loaders, batch_size, batch_no, lstate, finish_order, loaded,
                lpc>>
restVars == <<slackVars, watchVars, searchVars, loaderVars>>
\* What split_text leaves alone.
notChunkerVars == <<minimapVars, excerptVars, restVars>>
\* What create_minimap_fn and get_location_fn leave alone.
notMinimapVars == <<chunkerVars, excerptVars, restVars>>
\* What the steps of document_to_excerpts outside split_text leave alone.
notExcerptVars == <<chunkerVars, minimapVars, restVars>>
\* What the slackbot leaves alone.
notSlackVars == <<chunkerVars, minimapVars, excerptVars, watchVars, searchVars,
                  loaderVars>>
\* What WatchLLM leaves alone.
notWatchVars == <<chunkerVars, minimapVars, excerptVars, slackVars, searchVars,
                  loaderVars>>
\* What search_slack_messages leaves alone.
notSearchVars == <<chunkerVars, minimapVars, excerptVars, slackVars, watchVars,
                   loaderVars>>
\* What MultiLoader.load leaves alone.
notLoaderVars == <<chunkerVars, minimapVars, excerptVars, slackVars, watchVars,
                   searchVars>>

vars == <<chunkerVars, minimapVars, excerptVars, restVars>>

----------------------------------------------------------------------------
\* Values

None == [none |-> TRUE]
Frac(n, d) == [num |-> n, den |-> d]

\* "a", "b": one-byte characters; "U": a multi-byte character.
Chars == {"a", "b", "U"}
Texts == UNION {[1..n -> Chars] : n \in 0..MaxLen}

ChunkSizes == (-1)..MaxChunk
Overlaps == {None, Frac(-1, 4), Frac(0, 4), Frac(1, 4), Frac(2, 4),
             Frac(3, 4), Frac(4, 4), Frac(5, 4)}
Thresholds == {None, Frac(0, 4), Frac(1, 4), Frac(2, 4), Frac(3, 4), Frac(4, 4)}

\* Python's s[lo:hi] for 0 <= lo, 0 <= hi (0-based, hi exclusive, clipped).
Slice(s, lo, hi) ==
    LET h == IF hi < Len(s) THEN hi ELSE Len(s)
    IN IF lo >= h THEN <<>> ELSE SubSeq(s, lo + 1, h)

\* Python's int(n / d) for d > 0: truncation toward zero.
IntTrunc(n, d) == IF n >= 0 THEN n \div d ELSE -((-n) \div d)

----------------------------------------------------------------------------
\* tokenize / detokenize

\* tokenizer.encode: byte-pair encoding with the merge ("a","b") -> "ab";
\* the bytes of "U" are never merged into one token.
RECURSIVE tokenize(_)
tokenize(t) ==
    IF t = <<>> THEN <<>>
    ELSE IF t[1] = "U" THEN <<"U1", "U2">> \o tokenize(Tail(t))
    ELSE IF t[1] = "a" /\ Len(t) >= 2 /\ t[2] = "b"
         THEN <<"ab">> \o tokenize(Tail(Tail(t)))
    ELSE <<t[1]>> \o tokenize(Tail(t))

\* tokenizer.decode: the tokens' bytes joined and decoded as UTF-8 with
\* errors="replace".  "U1" directly followed by "U2" is the character "U";
\* a truncated "U1" and a stray "U2" are each one U+FFFD ("?").
RECURSIVE detokenize(_)
detokenize(ts) ==
    IF ts = <<>> THEN <<>>
    ELSE IF ts[1] = "ab" THEN <<"a", "b">> \o detokenize(Tail(ts))
    ELSE IF ts[1] = "U1"
         THEN IF Len(ts) >= 2 /\ ts[2] = "U2"
              THEN <<"U">> \o detokenize(Tail(Tail(ts)))
              ELSE <<"?">> \o detokenize(Tail(ts))
    ELSE IF ts[1] = "U2" THEN <<"?">> \o detokenize(Tail(ts))
    ELSE <<ts[1]>> \o detokenize(Tail(ts))

----------------------------------------------------------------------------
\* split_text

\* A slip: the windows advance by the overlap instead of by what is left of
\* the chunk.
RangeStep_AdvanceByOverlap(size, overlap) ==
    IntTrunc(overlap.num * size, overlap.den)

\* Line 95: chunk_size - int(chunk_overlap * chunk_size).
RangeStep(size, overlap) == size - IntTrunc(overlap.num * size, overlap.den)

\* A slip: the stop index is included.
InRange_Inclusive(index, stop, step) ==
    IF step > 0 THEN index <= stop ELSE index >= stop

\* Line 95: whether index is produced by range(0, stop, step), step # 0.
InRange(index, stop, step) == IF step > 0 THEN index < stop ELSE index > stop

\* A slip: the window is one token short.
Window_OneTokenShort(toks, index, size) ==
    [toks |-> Slice(toks, index, index + size - 1),
     index |-> Len(detokenize(Slice(toks, 0, index)))]

\* Line 96: the appended pair.
Window(toks, index, size) ==
    [toks |-> Slice(toks, index, index + size),
     index |-> Len(detokenize(Slice(toks, 0, index)))]

\* A slip: a last chunk exactly at the threshold is merged too.
LastChunkTooSmall_AtThreshold(cs, size, threshold) ==
    /\ Len(cs) > 1
    /\ Len(cs[Len(cs)].toks) * threshold.den <= size * threshold.num

\* Line 99: the condition of the merge.
LastChunkTooSmall(cs, size, threshold) ==
    /\ Len(cs) > 1
    /\ Len(cs[Len(cs)].toks) * threshold.den < size * threshold.num

\* A slip: the last chunk is removed without being added to the previous one.
MergeLast_DropsAbsorbed(cs) == SubSeq(cs, 1, Len(cs) - 1)

\* A slip: the merged chunk takes the index of the chunk it absorbed.
MergeLast_AbsorbedIndex(cs) ==
    LET n == Len(cs)
    IN [k \in 1..(n - 1) |->
          IF k = n - 1
          THEN [toks |-> cs[k].toks \o cs[n].toks, index |-> cs[n].index]
          ELSE cs[k]]

\* Line 100: chunks[-2][0].extend(chunks.pop(-1)[0]).
MergeLast(cs) ==
    LET n == Len(cs)
    IN [k \in 1..(n - 1) |->
          IF k = n - 1
          THEN [toks |-> cs[k].toks \o cs[n].toks, index |-> cs[k].index]
          ELSE cs[k]]

\* Lines 102-105: the returned list.
Returned(cs, withIndex) ==
    [k \in 1..Len(cs) |->
       IF withIndex THEN <<detokenize(cs[k].toks), cs[k].index>>
       ELSE detokenize(cs[k].toks)]

\* No call of create_minimap_fn is under way.
MinimapIdle ==
    /\ content = <<>>
    /\ lines = <<>>
    /\ line_no = 0
    /\ scan = <<>>
    /\ mpc = "idle"
    /\ lookup_n = 0
    /\ lookup_out = <<>>

\* No call of document_to_excerpts is under way.
ExcerptIdle ==
    /\ document = <<>>
    /\ chunk_tokens = 0
    /\ excerpt_overlap = None
    /\ epc = "idle"
    /\ tasks = <<>>
    /\ completed = <<>>
    /\ excerpts = <<>>
    /\ builds = 0

\* A dict with no key.
EmptyMap == [k \in {} |-> None]

\* No slackbot is served.
SlackIdle ==
    /\ variant = "none"
    /\ requests = <<>>
    /\ bg = <<>>
    /\ CACHE = EmptyMap
    /\ posted = <<>>

\* No WatchLLM has been made.
WatchIdle ==
    /\ overrides = {}
    /\ cls_dict = EmptyMap
    /\ patched_methods = <<>>
    /\ to_patch = <<>>
    /\ to_reset = <<>>
    /\ wpc = "idle"
    /\ enters = 0

\* No call of search_slack_messages is under way.
SearchIdle ==
    /\ max_messages = 0
    /\ channel = None
    /\ all_messages = <<>>
    /\ next_cursor = None
    /\ sent = <<>>
    /\ spc = "idle"
    /\ found = <<>>

\* No call of MultiLoader.load is under way.
LoaderIdle ==
    /\ loaders = <<>>
    /\ batch_size = 0
    /\ batch_no = 0
    /\ lstate = <<>>
    /\ finish_order = <<>>
    /\ loaded = <<>>
    /\ lpc = "idle"

\* Nothing but the part at hand is running.
RestIdle == SlackIdle /\ WatchIdle /\ SearchIdle /\ LoaderIdle

Init ==
    /\ MinimapIdle
    /\ ExcerptIdle
    /\ RestIdle
    /\ text \in Texts
    /\ chunk_size \in ChunkSizes
    /\ chunk_overlap \in Overlaps
    /\ last_chunk_threshold \in Thresholds
    /\ return_index \in BOOLEAN
    /\ tokens = <<>>
    /\ chunks = <<>>
    /\ i = 0
    /\ pc = "start"
    /\ result = <<>>
    /\ error = "none"

\* A slip: only the lower bound of chunk_overlap is checked.
CheckArgs_NoUpperBound ==
    /\ pc = "start"
    /\ LET overlap == IF chunk_overlap = None THEN Frac(1, 10) ELSE chunk_overlap
       IN /\ chunk_overlap' = overlap
          /\ IF overlap.num < 0
             THEN /\ pc' = "error"
                  /\ error' = "ValueError: chunk_overlap must be between 0 and 1"
                  /\ UNCHANGED last_chunk_threshold
             ELSE /\ pc' = "tokenize"
                  /\ last_chunk_threshold' =
                       IF last_chunk_threshold = None THEN Frac(1, 4)
                       ELSE last_chunk_threshold
                  /\ UNCHANGED error
    /\ UNCHANGED <<text, chunk_size, return_index, tokens, chunks, i, result>>
    /\ UNCHANGED notChunkerVars

\* Lines 85-90: defaults and the check of chunk_overlap.
CheckArgs ==
    /\ pc = "start"
    /\ LET overlap == IF chunk_overlap = None THEN Frac(1, 10) ELSE chunk_overlap
       IN /\ chunk_overlap' = overlap
          /\ IF overlap.num < 0 \/ overlap.num > overlap.den
             THEN /\ pc' = "error"
                  /\ error' = "ValueError: chunk_overlap must be between 0 and 1"
                  /\ UNCHANGED last_chunk_threshold
             ELSE /\ pc' = "tokenize"
                  /\ last_chunk_threshold' =
                       IF last_chunk_threshold = None THEN Frac(1, 4)
                       ELSE last_chunk_threshold
                  /\ UNCHANGED error
    /\ UNCHANGED <<text, chunk_size, return_index, tokens, chunks, i, result>>
    /\ UNCHANGED notChunkerVars

\* A slip: a loop that advances i by hand, with nothing that rejects a zero
\* step.
Tokenize_NoZeroStepError ==
    /\ pc = "tokenize"
    /\ tokens' = tokenize(text)
    /\ chunks' = <<>>
    /\ pc' = "loop"
    /\ i' = 0
    /\ UNCHANGED <<text, chunk_size, chunk_overlap, last_chunk_threshold,
                   return_index, result, error>>
    /\ UNCHANGED notChunkerVars

\* Lines 92-95: tokenize, the empty chunk list, and the range object of the
\* for statement; range() raises ValueError when its step is zero.
Tokenize ==
    /\ pc = "tokenize"
    /\ tokens' = tokenize(text)
    /\ chunks' = <<>>
    /\ IF RangeStep(chunk_size, chunk_overlap) = 0
       THEN /\ pc' = "error"
            /\ error' = "ValueError: range() arg 3 must not be zero"
            /\ UNCHANGED i
       ELSE /\ pc' = "loop"
            /\ i' = 0
            /\ UNCHANGED error
    /\ UNCHANGED <<text, chunk_size, chunk_overlap, last_chunk_threshold,
                   return_index, result>>
    /\ UNCHANGED notChunkerVars

\* Lines 95-96: one iteration of the loop.
LoopBody ==
    /\ pc = "loop"
    /\ InRange(i, Len(tokens), RangeStep(chunk_size, chunk_overlap))
    /\ chunks' = Append(chunks, Window(tokens, i, chunk_size))
    /\ i' = i + RangeStep(chunk_size, chunk_overlap)
    /\ UNCHANGED <<text, chunk_size, chunk_overlap, last_chunk_threshold,
                   return_index, tokens, pc, result, error>>
    /\ UNCHANGED notChunkerVars

\* Line 95: the range is exhausted.
LoopExit ==
    /\ pc = "loop"
    /\ ~InRange(i, Len(tokens), RangeStep(chunk_size, chunk_overlap))
    /\ pc' = "merge"
    /\ UNCHANGED <<text, chunk_size, chunk_overlap, last_chunk_threshold,
                   return_index, tokens, chunks, i, result, error>>
    /\ UNCHANGED notChunkerVars

\* Lines 98-100: merge a too small last chunk into the previous one.
Merge ==
    /\ pc = "merge"
    /\ chunks' = IF LastChunkTooSmall(chunks, chunk_size, last_chunk_threshold)
                 THEN MergeLast(chunks) ELSE chunks
    /\ pc' = "return"
    /\ UNCHANGED <<text, chunk_size, chunk_overlap, last_chunk_threshold,
                   return_index, tokens, i, result, error>>
    /\ UNCHANGED notChunkerVars

\* Lines 102-105.
Return ==
    /\ pc = "return"
    /\ result' = Returned(chunks, return_index)
    /\ pc' = "done"
    /\ UNCHANGED <<text, chunk_size, chunk_overlap, last_chunk_threshold,
                   return_index, tokens, chunks, i, error>>
    /\ UNCHANGED notChunkerVars

Next == CheckArgs \/ Tokenize \/ LoopBody \/ LoopExit \/ Merge \/ Return

Spec == Init /\ [][Next]_vars

\* The call runs to its end: no step of it waits on anything.
FairSpec == Spec /\ WF_vars(Next)

----------------------------------------------------------------------------
\* create_minimap_fn (src/src/marvin-recipes/models/documents.py)

\* No call of split_text is under way.
ChunkerIdle ==
    /\ text = <<>>
    /\ chunk_size = 0
    /\ chunk_overlap = None
    /\ last_chunk_threshold = None
    /\ return_index = FALSE
    /\ tokens = <<>>
    /\ chunks = <<>>
    /\ i = 0
    /\ pc = "idle"
    /\ result = <<>>
    /\ error = "none"

\* A text is a sequence of characters, each a string; these two are named.
Backtick == "backtick"
Newline == "\n"

\* The lines a markdown text is made of here.
MdLines ==
    {<<"#", " ", "A">>,
     <<"#", "#", " ", "B">>,
     <<"#", "#", "#", " ", "C">>,
     <<"#", "#", " ", "D">>,
     <<"#", "#", "#", "#", " ", "E">>,
     <<"#", "#", "#", "#", "#", " ", "F">>,
     <<"#", "#", "#", "#", "#", "#", " ", "G">>,
     <<"#", "x">>,
     <<"t", "e", "x", "t">>,
     <<Backtick, Backtick, Backtick>>}

RECURSIVE JoinLines(_)
JoinLines(ls) ==
    IF ls = <<>> THEN <<>>
    ELSE IF Len(ls) = 1 THEN ls[1]
    ELSE ls[1] \o <<Newline>> \o JoinLines(Tail(ls))

\* The example of heading eviction: the lines # A, ## B, ### C, ## D, text.
EvictionExample ==
    JoinLines(<< <<"#", " ", "A">>, <<"#", "#", " ", "B">>,
                 <<"#", "#", "#", " ", "C">>, <<"#", "#", " ", "D">>,
                 <<"t", "e", "x", "t">> >>)

Contents ==
    {JoinLines(ls) : ls \in UNION {[1..n -> MdLines] : n \in 0..MaxLines}}
        \cup {EvictionExample}

Queries == (-1)..MaxQuery

\* str.splitlines, for a text whose only line boundary is the newline.
RECURSIVE SplitLines(_)
SplitLines(c) ==
    IF c = <<>> THEN <<>>
    ELSE LET nl == {k \in 1..Len(c) : c[k] = Newline}
         IN IF nl = {} THEN <<c>>
            ELSE LET k == CHOOSE x \in nl : \A y \in nl : x <= y
                 IN <<SubSeq(c, 1, k - 1)>> \o SplitLines(SubSeq(c, k + 1, Len(c)))

\* str.startswith
StartsWith(line, prefix) ==
    /\ Len(line) >= Len(prefix)
    /\ SubSeq(line, 1, Len(prefix)) = prefix

\* "# ", "## ", ...: k times "#" and a space.
HashPrefix(k) == [j \in 1..(k + 1) |-> IF j <= k THEN "#" ELSE " "]

\* Lines 168-187: the branch of the if / elif chain a line takes; 0 is else.
HeadingLevel(line) ==
    IF StartsWith(line, HashPrefix(1)) THEN 1
    ELSE IF StartsWith(line, HashPrefix(2)) THEN 2
    ELSE IF StartsWith(line, HashPrefix(3)) THEN 3
    ELSE IF StartsWith(line, HashPrefix(4)) THEN 4
    ELSE IF StartsWith(line, HashPrefix(5)) THEN 5
    ELSE 0

\* A dict from the levels 1..5 to lines: Missing marks a key it does not hold.
Missing == <<"<missing>">>
EmptyDict == [l \in 1..5 |-> Missing]

\* Lines 157-160.  A dict is an object: heap[r] is the dict with reference r
\* and current_stack and the values of minimap are references.  minimap is a
\* set of <<key, reference>> pairs.
NewScan ==
    [minimap |-> {},
     in_code_block |-> FALSE,
     heap |-> <<EmptyDict>>,
     current_stack |-> 1,
     characters |-> 0]

\* minimap[key] = ref
DictPut(m, key, ref) == {p \in m : p[1] # key} \cup {<<key, ref>>}

\* A slip: a heading leaves the deeper headings before it on the stack.
PushHeading_KeepsDeeper(s, level, line) ==
    IF level = 1
    THEN [s EXCEPT !.heap = Append(s.heap, [EmptyDict EXCEPT ![1] = line]),
                   !.current_stack = Len(s.heap) + 1]
    ELSE [s EXCEPT !.heap[s.current_stack] =
             [l \in 1..5 |-> IF l = level THEN line
                             ELSE s.heap[s.current_stack][l]]]

\* Lines 169-185: the stack after a heading line of the given level:
\* a new dict for level 1, the same dict changed in place for levels 2..5.
PushHeading(s, level, line) ==
    IF level = 1
    THEN [s EXCEPT !.heap = Append(s.heap, [EmptyDict EXCEPT ![1] = line]),
                   !.current_stack = Len(s.heap) + 1]
    ELSE [s EXCEPT !.heap[s.current_stack] =
             [l \in 1..5 |-> IF l = level THEN line
                             ELSE IF l > level THEN Missing
                             ELSE s.heap[s.current_stack][l]]]

\* A slip: the snapshot is recorded at the count after the line.
Record_AfterLine(s, line) ==
    [s EXCEPT !.minimap = DictPut(s.minimap, s.characters, s.current_stack)]

\* Line 189: minimap[characters - len(line)] = current_stack.
Record(s, line) ==
    [s EXCEPT !.minimap =
        DictPut(s.minimap, s.characters - Len(line), s.current_stack)]

\* A slip: the flag of the code block is kept but never looked at.
ScanLine_IgnoresCodeBlock(s, line) ==
    LET counted == [s EXCEPT !.characters = s.characters + Len(line)]
        fenced == IF StartsWith(line, <<Backtick, Backtick, Backtick>>)
                  THEN [counted EXCEPT !.in_code_block = ~s.in_code_block]
                  ELSE counted
    IN IF HeadingLevel(line) = 0 THEN fenced
       ELSE Record(PushHeading(fenced, HeadingLevel(line), line), line)

\* Lines 162-189: the body of the loop for one line.
ScanLine(s, line) ==
    LET counted == [s EXCEPT !.characters = s.characters + Len(line)]
        fenced == IF StartsWith(line, <<Backtick, Backtick, Backtick>>)
                  THEN [counted EXCEPT !.in_code_block = ~s.in_code_block]
                  ELSE counted
    IN IF fenced.in_code_block THEN fenced
       ELSE IF HeadingLevel(line) = 0 THEN fenced
       ELSE Record(PushHeading(fenced, HeadingLevel(line), line), line)

\* Line 199: str.join, with a newline between the lines of a list.
JoinNewline(ls) == JoinLines(ls)

\* A slip: only the snapshots strictly before n are looked at.
StackAt_StrictlyBefore(s, n) ==
    LET below == {p[1] : p \in {q \in s.minimap : q[1] < n}}
        key == IF below = {} THEN 0
               ELSE CHOOSE k \in below : \A j \in below : j <= k
        hit == {p \in s.minimap : p[1] = key}
    IN IF hit = {} THEN EmptyDict
       ELSE s.heap[(CHOOSE p \in hit : TRUE)[2]]

\* Line 196: the dict get_location_fn reads for n >= 0.
StackAt(s, n) ==
    LET below == {p[1] : p \in {q \in s.minimap : q[1] <= n}}
        key == IF below = {} THEN 0
               ELSE CHOOSE k \in below : \A j \in below : j <= k
        hit == {p \in s.minimap : p[1] = key}
    IN IF hit = {} THEN EmptyDict
       ELSE s.heap[(CHOOSE p \in hit : TRUE)[2]]

\* Lines 198-199.
Render(stack) ==
    JoinNewline(SelectSeq([l \in 1..5 |-> stack[l]], LAMBDA h : h # Missing))

\* A slip: no check of n.
get_location_fn_Unchecked(s, n) == [returned |-> Render(StackAt(s, n))]

\* Lines 191-199: get_location_fn(n), what it returns or raises.
get_location_fn(s, n) ==
    IF n < 0 THEN [raised |-> "ValueError: n must be >= 0"]
    ELSE [returned |-> Render(StackAt(s, n))]

MinimapInit ==
    /\ ChunkerIdle
    /\ ExcerptIdle
    /\ RestIdle
    /\ content \in Contents
    /\ lines = <<>>
    /\ line_no = 0
    /\ scan = <<>>
    /\ mpc = "start"
    /\ lookup_n = 0
    /\ lookup_out = <<>>

\* Lines 157-161: the locals, and the lines the loop runs over.
MinimapBegin ==
    /\ mpc = "start"
    /\ scan' = NewScan
    /\ lines' = SplitLines(content)
    /\ line_no' = 0
    /\ mpc' = "scan"
    /\ UNCHANGED <<content, lookup_n, lookup_out>>
    /\ UNCHANGED notMinimapVars

\* Lines 161-189: the loop takes its next line.
MinimapLine ==
    /\ mpc = "scan"
    /\ line_no < Len(lines)
    /\ scan' = ScanLine(scan, lines[line_no + 1])
    /\ line_no' = line_no + 1
    /\ UNCHANGED <<content, lines, mpc, lookup_n, lookup_out>>
    /\ UNCHANGED notMinimapVars

\* Lines 161, 201: the loop is over, get_location_fn is returned.
MinimapReturn ==
    /\ mpc = "scan"
    /\ line_no = Len(lines)
    /\ mpc' = "built"
    /\ UNCHANGED <<content, lines, line_no, scan, lookup_n, lookup_out>>
    /\ UNCHANGED notMinimapVars

\* Lines 191-199: a call of the returned function.
Lookup ==
    /\ mpc = "built"
    /\ \E n \in Queries :
         /\ lookup_n' = n
         /\ lookup_out' = get_location_fn(scan, n)
    /\ mpc' = "looked"
    /\ UNCHANGED <<content, lines, line_no, scan>>
    /\ UNCHANGED notMinimapVars

MinimapNext == MinimapBegin \/ MinimapLine \/ MinimapReturn \/ Lookup

SpecMinimap == MinimapInit /\ [][MinimapNext]_vars

----------------------------------------------------------------------------
\* What the properties below speak of

\* chunk_overlap with its default applied.
EffOverlap == IF chunk_overlap = None THEN Frac(1, 10) ELSE chunk_overlap

OverlapInUnit == EffOverlap.num >= 0 /\ EffOverlap.num <= EffOverlap.den

\* step = chunk_size - floor(overlap * chunk_size)
FloorStep == chunk_size - ((EffOverlap.num * chunk_size) \div EffOverlap.den)

\* The token indices 0, step, 2*step, ... below the token count.
WindowStarts == {j \in 0..(Len(tokens) - 1) : j % FloorStep = 0}

Indexed == pc = "done" /\ return_index

RECURSIVE Concat(_)
Concat(ss) == IF ss = <<>> THEN <<>> ELSE Head(ss)[1] \o Concat(Tail(ss))

\* C1: the character offsets of the returned chunks, in output order, are
\* strictly increasing.
C1_OffsetsStrictlyIncreasing ==
    Indexed => \A k \in 1..(Len(result) - 1) : result[k][2] < result[k + 1][2]

\* C2: for chunk_size > 0, the last returned chunk's offset plus the length
\* of its text is at most the length of the original text.
C2_LastChunkEndsInsideText ==
    (Indexed /\ chunk_size > 0 /\ result # <<>>) =>
        result[Len(result)][2] + Len(result[Len(result)][1]) <= Len(text)

\* C3: the k-th returned chunk carries as its offset the character length of
\* the detokenized tokens before its own window start (k-1)*step, also when
\* it absorbed the final window.
C3_OffsetIsPrefixLength ==
    Indexed => \A k \in 1..Len(result) :
        /\ (k - 1) * FloorStep \in WindowStarts
        /\ result[k][2] =
             Len(detokenize(SubSeq(tokens, 1, (k - 1) * FloorStep)))

\* C3 witness: a call that merged its final window and returned two or more
\* chunks.
C3_Witness ==
    /\ Indexed
    /\ Len(result) >= 2
    /\ Len(result) = Cardinality(WindowStarts) - 1
    /\ result[Len(result)][2] > 0

\* C4: the final window is absorbed into its predecessor exactly when there
\* are at least 2 windows and its token count is strictly below
\* chunk_size * threshold; absorbing leaves one chunk fewer, whose last chunk
\* is the second-to-last window's tokens followed by the final window's.
C4_MergeRule ==
    [][pc = "merge" =>
         LET n == Len(chunks)
             small == /\ n >= 2
                      /\ Len(chunks[n].toks) * last_chunk_threshold.den
                           < chunk_size * last_chunk_threshold.num
         IN IF small
            THEN /\ Len(chunks') = n - 1
                 /\ chunks'[n - 1].toks = chunks[n - 1].toks \o chunks[n].toks
                 /\ \A k \in 1..(n - 2) : chunks'[k] = chunks[k]
            ELSE chunks' = chunks]_vars

\* C4 witness: windows of [4, 4, 1] tokens with chunk_size 4 merged into
\* chunks of [4, 5] tokens.
C4_Witness ==
    /\ pc = "return"
    /\ chunk_size = 4
    /\ Len(tokens) = 7
    /\ Len(chunks) = 2
    /\ Len(chunks[1].toks) = 4
    /\ Len(chunks[2].toks) = 5

\* C5: for chunk_size > 0 the loop leaves one window per index 0, step,
\* 2*step, ... below the token count, each holding the next chunk_size tokens
\* (fewer at the end) and the character length of the tokens before it.
C5_WindowsWalkBySteps ==
    (pc = "merge" /\ chunk_size > 0) =>
        /\ Len(chunks) = Cardinality(WindowStarts)
        /\ \A k \in 1..Len(chunks) :
             LET s == (k - 1) * FloorStep
                 e == IF s + chunk_size < Len(tokens)
                      THEN s + chunk_size ELSE Len(tokens)
             IN /\ s \in WindowStarts
                /\ chunks[k].toks = SubSeq(tokens, s + 1, e)
                /\ chunks[k].index = Len(detokenize(SubSeq(tokens, 1, s)))

\* C5 witness: 8 tokens, chunk_size 4, step 3: windows from 0, 3, 6 of 4, 4
\* and 2 tokens.
C5_Witness ==
    /\ pc = "merge"
    /\ chunk_size = 4
    /\ FloorStep = 3
    /\ Len(tokens) = 8
    /\ Len(chunks) = 3
    /\ Len(chunks[3].toks) = 2
    /\ chunks[3].index = Len(detokenize(SubSeq(tokens, 1, 6)))

\* C6 as stated: a text of fewer than chunk_size tokens, with overlap in
\* [0,1), gives exactly one chunk, at offset 0, holding the whole text.
C6_OneChunkBelowChunkSize ==
    (Indexed /\ Len(tokens) < chunk_size /\ EffOverlap.num < EffOverlap.den) =>
        /\ Len(result) = 1
        /\ result[1][2] = 0
        /\ result[1][1] = text

\* C6 amended: a non-empty text of at most step tokens gives exactly one
\* chunk, at offset 0, holding the whole text.
C6_OneChunkWithinStep ==
    (Indexed /\ Len(tokens) >= 1 /\ Len(tokens) <= FloorStep) =>
        /\ Len(result) = 1
        /\ result[1][2] = 0
        /\ result[1][1] = text

\* C6 witness: a one-chunk result for a text shorter than chunk_size, with a
\* non-zero overlap and a threshold that would merge a second window.
C6_Witness ==
    /\ Indexed
    /\ Len(tokens) >= 2
    /\ Len(tokens) <= FloorStep
    /\ FloorStep < chunk_size
    /\ last_chunk_threshold = Frac(4, 4)
    /\ result = <<(<<text, 0>>)>>

C8_NonPositiveChunkSizeFails ==
    (chunk_size <= 0 /\ OverlapInUnit) => pc # "done"

\* C9: for the empty text and valid parameters (chunk_size > 0, overlap in
\* [0,1], step >= 1) the call does not fail and returns zero chunks.
C9_EmptyTextNoChunks ==
    (text = <<>> /\ chunk_size > 0 /\ OverlapInUnit /\ FloorStep >= 1) =>
        /\ pc # "error"
        /\ chunks = <<>>
        /\ result = <<>>

\* C9 witness: the call on the empty text has returned.
C9_Witness ==
    /\ text = <<>>
    /\ chunk_size > 0
    /\ pc = "done"
    /\ result = <<>>

\* C10: with overlap 0 and chunk_size > 0 each chunk starts where the
\* previous one ends and the chunk texts, joined in order, are the text.
C10_ContiguousAtZeroOverlap ==
    (Indexed /\ chunk_size > 0 /\ EffOverlap.num = 0) =>
        /\ \A k \in 1..(Len(result) - 1) :
             result[k + 1][2] = result[k][2] + Len(result[k][1])
        /\ Concat(result) = text

----------------------------------------------------------------------------
\* document_to_excerpts (src/src/marvin-recipes/models/documents.py)

\* create_minimap_fn as one call: the loop over all the lines.
RECURSIVE ScanAll(_, _)
ScanAll(s, ls) == IF ls = <<>> THEN s ELSE ScanAll(ScanLine(s, Head(ls)), Tail(ls))

create_minimap_fn(c) == ScanAll(NewScan, SplitLines(c))

\* The documents: an id, a text of a few lines, a link.
ExcerptLines ==
    {<<"#", " ", "A">>, <<"#", "#", " ", "B">>, <<"t", "e", "x", "t">>}
ExcerptTexts ==
    {JoinLines(ls) : ls \in UNION {[1..n -> ExcerptLines] : n \in 0..MaxDocLines}}
\* metadata.link: the default "None", a markdown file, another file.
Links == {<<"N", "o", "n", "e">>, <<"d", ".", "m", "d">>, <<"d", ".", "p", "y">>}
\* A Document made without a type has no such attribute.
Untyped == "untyped"
Documents ==
    [id : {<<"doc">>}, type : {Untyped}, parent_document_id : {None},
     text : ExcerptTexts, link : Links, keywords : {<<>>}]
\* chunk_tokens: two small sizes and the default; overlap: the default and 1.
ExcerptChunkTokens == {4, 8, 200}
ExcerptOverlaps == {Frac(1, 10), Frac(4, 4)}

\* str.endswith
EndsWith(str, suffix) ==
    /\ Len(str) >= Len(suffix)
    /\ SubSeq(str, Len(str) - Len(suffix) + 1, Len(str)) = suffix

\* Line 130: document.metadata.link and document.metadata.link.endswith(".md")
IsMarkdown(doc) == doc.link # <<>> /\ EndsWith(doc.link, <<".", "m", "d">>)

\* Line 126: the keywords of a text (yake, a function of the text alone):
\* here the capital letters of the text.
extract_keywords(t) ==
    SelectSeq(t, LAMBDA c : c \in {"A", "B", "C", "D", "E", "F", "G"})

\* Lines 62-75, 134-140: the rendered template; a section whose value is
\* empty or None is left out.
NoSection == [absent |-> TRUE]
RenderExcerpt(doc, excerpt_text, minimap) ==
    [metadata |-> doc.link,
     keywords |-> IF doc.keywords = <<>> THEN NoSection ELSE doc.keywords,
     minimap |-> IF minimap = None \/ minimap = <<>> THEN NoSection ELSE minimap,
     excerpt_text |-> excerpt_text]

\* Lines 107-114: the coroutine made for one chunk; index is the number
\* enumerate gives the chunk.
NewTask(chunk_text, index) ==
    [pc |-> "created", text |-> chunk_text, index |-> index,
     keywords |-> <<>>, minimap |-> None, out |-> None]

\* Lines 128-132.
MinimapFor(doc, index) ==
    IF IsMarkdown(doc)
    THEN get_location_fn(create_minimap_fn(doc.text), index).returned
    ELSE None

\* A slip: the excerpt names itself as its parent.
NewExcerpt_NoParent(doc, n, excerpt_text, keywords) ==
    [id |-> Append(doc.id, n),
     type |-> "excerpt",
     parent_document_id |-> Append(doc.id, n),
     text |-> excerpt_text,
     keywords |-> keywords,
     metadata |-> doc.link]

\* Lines 141-149: the excerpt Document; its fresh id is written as the
\* document's id followed by the number of the task that drew it.
NewExcerpt(doc, n, excerpt_text, keywords) ==
    [id |-> Append(doc.id, n),
     type |-> "excerpt",
     parent_document_id |-> doc.id,
     text |-> excerpt_text,
     keywords |-> keywords,
     metadata |-> doc.link]

\* A slip: the results are taken as the tasks finish.
Gathered_AsCompleted(ts, order) == [k \in 1..Len(order) |-> ts[order[k]].out]

\* Line 105: what gather returns: the results in the order of its arguments.
Gathered(ts, order) == [k \in 1..Len(ts) |-> ts[k].out]

ExcerptInit ==
    /\ ChunkerIdle
    /\ MinimapIdle
    /\ RestIdle
    /\ document \in Documents
    /\ chunk_tokens \in ExcerptChunkTokens
    /\ excerpt_overlap \in ExcerptOverlaps
    /\ epc = "start"
    /\ tasks = <<>>
    /\ completed = <<>>
    /\ excerpts = <<>>
    /\ builds = 0

\* Lines 95-103: the call of split_text.
ExcerptSplit ==
    /\ epc = "start"
    /\ text' = document.text
    /\ chunk_size' = chunk_tokens
    /\ chunk_overlap' = excerpt_overlap
    /\ last_chunk_threshold' = None
    /\ return_index' = TRUE
    /\ pc' = "start"
    /\ epc' = "split"
    /\ UNCHANGED <<tokens, chunks, i, result, error>>
    /\ UNCHANGED <<document, chunk_tokens, excerpt_overlap, tasks, completed, excerpts,
                   builds>>
    /\ UNCHANGED <<minimapVars, restVars>>

\* Line 98: split_text raised.
ExcerptSplitFailed ==
    /\ epc = "split"
    /\ pc = "error"
    /\ epc' = "error"
    /\ UNCHANGED <<document, chunk_tokens, excerpt_overlap, tasks, completed, excerpts,
                   builds>>
    /\ UNCHANGED notExcerptVars

\* Lines 105-116: one coroutine per chunk, handed to gather.
ExcerptGather ==
    /\ epc = "split"
    /\ pc = "done"
    /\ tasks' = [k \in 1..Len(result) |-> NewTask(result[k][1], k - 1)]
    /\ epc' = "gather"
    /\ UNCHANGED <<document, chunk_tokens, excerpt_overlap, completed, excerpts, builds>>
    /\ UNCHANGED notExcerptVars

\* Lines 126-134: a task runs up to its await.
TaskBegin(k) ==
    /\ epc = "gather"
    /\ tasks[k].pc = "created"
    /\ tasks' = [tasks EXCEPT ![k].pc = "rendering",
                              ![k].keywords = extract_keywords(tasks[k].text),
                              ![k].minimap = MinimapFor(document, tasks[k].index)]
    /\ builds' = IF IsMarkdown(document) THEN builds + 1 ELSE builds
    /\ UNCHANGED <<document, chunk_tokens, excerpt_overlap, epc, completed, excerpts>>
    /\ UNCHANGED notExcerptVars

\* Lines 134-149: the task resumes, renders and returns its excerpt.
TaskFinish(k) ==
    /\ epc = "gather"
    /\ tasks[k].pc = "rendering"
    /\ tasks' = [tasks EXCEPT
         ![k].pc = "done",
         ![k].out = NewExcerpt(document, k,
                      RenderExcerpt(document, tasks[k].text, tasks[k].minimap),
                      tasks[k].keywords)]
    /\ completed' = Append(completed, k)
    /\ UNCHANGED <<document, chunk_tokens, excerpt_overlap, epc, excerpts, builds>>
    /\ UNCHANGED notExcerptVars

\* Line 105: every task is done, gather returns.
GatherReturn ==
    /\ epc = "gather"
    /\ \A k \in 1..Len(tasks) : tasks[k].pc = "done"
    /\ excerpts' = Gathered(tasks, completed)
    /\ epc' = "done"
    /\ UNCHANGED <<document, chunk_tokens, excerpt_overlap, tasks, completed, builds>>
    /\ UNCHANGED notExcerptVars

ExcerptNext ==
    \/ ExcerptSplit
    \/ CheckArgs \/ Tokenize \/ LoopBody \/ LoopExit \/ Merge \/ Return
    \/ ExcerptSplitFailed
    \/ ExcerptGather
    \/ \E k \in 1..Len(tasks) : TaskBegin(k)
    \/ \E k \in 1..Len(tasks) : TaskFinish(k)
    \/ GatherReturn

SpecExcerpts == ExcerptInit /\ [][ExcerptNext]_vars

----------------------------------------------------------------------------
\* Calls of document_to_excerpts one after another

\* The text of a rendered excerpt as a string: the location section, when
\* there is one, and the excerpt content (the fixed words of the template and
\* the metadata and keyword sections are left out).
RenderedText(r) ==
    IF r.minimap = NoSection THEN r.excerpt_text
    ELSE r.minimap \o <<Newline>> \o r.excerpt_text

\* A returned excerpt as the document argument of a call.
AsDocument(e) ==
    [id |-> e.id, type |-> e.type, parent_document_id |-> e.parent_document_id,
     text |-> RenderedText(e.text), link |-> e.metadata, keywords |-> e.keywords]

\* Lines 78-84: the next call, with the same chunk_tokens and overlap, over
\* the same document or over one of the excerpts the last call returned; the
\* function takes any Document.
ExcerptAgain ==
    /\ epc = "done"
    /\ \E d \in {document} \cup {AsDocument(excerpts[k]) : k \in 1..Len(excerpts)} :
        /\ Len(d.id) <= MaxDerivations
        /\ document' = d
    /\ epc' = "start"
    /\ tasks' = <<>>
    /\ completed' = <<>>
    /\ excerpts' = <<>>
    /\ builds' = 0
    /\ text' = <<>>
    /\ chunk_size' = 0
    /\ chunk_overlap' = None
    /\ last_chunk_threshold' = None
    /\ return_index' = FALSE
    /\ tokens' = <<>>
    /\ chunks' = <<>>
    /\ i' = 0
    /\ pc' = "idle"
    /\ result' = <<>>
    /\ error' = "none"
    /\ UNCHANGED <<chunk_tokens, excerpt_overlap>>
    /\ UNCHANGED <<minimapVars, restVars>>

DerivationNext ==
    \/ ExcerptNext
    \/ ExcerptAgain

SpecDerivation == ExcerptInit /\ [][DerivationNext]_vars

----------------------------------------------------------------------------
\* The slackbot (src/examples/slackbot/chatbot.py, slackbot.py)

\* dict.get(key, default)
Get(d, key, default) == IF key \in DOMAIN d THEN d[key] ELSE default

\* dict[key] = value
Put(d, key, value) ==
    [k \in DOMAIN d \cup {key} |-> IF k = key THEN value ELSE d[k]]

\* A message text is a sequence of words; a user mention, the text matched
\* by SLACK_MENTION_REGEX, is one word.
BotUserId == "UBOT"
SlackMentions == {"<@UBOT>", "<@U1>"}
MentionedId(word) == IF word = "<@UBOT>" THEN "UBOT" ELSE "U1"
SlackTexts ==
    {<<"hi">>, <<"<@UBOT>", "q">>, <<"<@U1>", "<@UBOT>">>}

\* The events: a first message of a thread (no thread_ts) or a reply in it.
SlackEvents ==
    {[text |-> t, thread_ts |-> th[1], ts |-> th[2], channel |-> "C1"] :
        t \in SlackTexts,
        th \in {<<"", "T1">>, <<"", "T2">>, <<"T1", "T2">>}}

Payloads ==
    {[type |-> "url_verification", challenge |-> "c1"],
     [type |-> "app_rate_limited"]}
    \cup {[type |-> "event_callback", event |-> e,
           authorizations |-> <<[user_id |-> BotUserId]>>] : e \in SlackEvents}

\* re.search(SLACK_MENTION_REGEX, message): the place of the first mention,
\* 0 when there is none.
FirstMatch(message) ==
    LET ms == {k \in 1..Len(message) : message[k] \in SlackMentions}
    IN IF ms = {} THEN 0 ELSE CHOOSE k \in ms : \A j \in ms : k <= j

\* re.sub(SLACK_MENTION_REGEX, "", message).strip()
WithoutMentions(message) ==
    SelectSeq(message, LAMBDA w : w \notin SlackMentions)

\* A slip: every type but url_verification starts a response.
Dispatch_NoRejection(p) ==
    IF Get(p, "type", "") = "url_verification" THEN "challenge" ELSE "respond"

\* handle_message, the if / elif on the payload type.
Dispatch(p) ==
    IF Get(p, "type", "") = "url_verification" THEN "challenge"
    ELSE IF Get(p, "type", "") # "event_callback" THEN "reject"
    ELSE "respond"

\* asyncio.create_task(generate_ai_response(payload)), for the r-th request.
NewBg(r, p) ==
    [request |-> r, payload |-> p, pc |-> "created", thread |-> "",
     message |-> <<>>, history |-> <<>>]

\* A slip: the event is taken when the bot is mentioned anywhere in it.
Addressed_AnyMention(message, bot_user_id) ==
    \E k \in 1..Len(message) :
        message[k] \in SlackMentions /\ MentionedId(message[k]) = bot_user_id

\* generate_ai_response: the match and the test of the mentioned user.
Addressed(message, bot_user_id) ==
    /\ FirstMatch(message) # 0
    /\ MentionedId(message[FirstMatch(message)]) = bot_user_id

\* generate_ai_response from its first line that does not wait to the await
\* of bot.run, or to its return when the event is skipped.
Decide(task) ==
    LET event == Get(task.payload, "event", [text |-> <<>>])
        message == Get(event, "text", <<>>)
        bot_user_id == Get(Get(task.payload, "authorizations",
                               <<[user_id |-> ""]>>)[1], "user_id", "")
        thread_ts == Get(event, "thread_ts", "")
        thread == IF thread_ts # "" THEN thread_ts ELSE Get(event, "ts", "")
    IN IF ~Addressed(message, bot_user_id)
       THEN [task EXCEPT !.pc = "returned"]
       ELSE [task EXCEPT !.pc = "running",
                         !.thread = thread,
                         !.message = WithoutMentions(message),
                         !.history = Get(CACHE, thread, <<>>)]

\* bot.run(input_text=message): the history of the bot gains the user's
\* message and the answer; the answer is named after the task that got it.
Exchange(t) ==
    <<[role |-> "user", content |-> bg[t].message],
      [role |-> "ai", content |-> <<"answer", t>>]>>

SlackInit ==
    /\ ChunkerIdle
    /\ MinimapIdle
    /\ ExcerptIdle
    /\ LoaderIdle
    /\ WatchIdle
    /\ SearchIdle
    /\ variant \in {"chatbot", "slackbot"}
    /\ requests = <<>>
    /\ bg = <<>>
    /\ CACHE = EmptyMap
    /\ posted = <<>>

\* handle_message(payload) up to its return, or in slackbot.py up to the
\* await of emit_any_prefect_event.
HandleMessage(p) ==
    /\ Len(requests) < MaxRequests
    /\ LET r == Len(requests) + 1
       IN CASE Dispatch(p) = "challenge" ->
                 /\ requests' = Append(requests,
                      [payload |-> p, hpc |-> "responded",
                       response |-> [challenge |-> Get(p, "challenge", "")]])
                 /\ UNCHANGED bg
            [] Dispatch(p) = "reject" ->
                 /\ requests' = Append(requests,
                      [payload |-> p, hpc |-> "responded",
                       response |-> [status_code |-> 400,
                                     detail |-> "Invalid event type"]])
                 /\ UNCHANGED bg
            [] Dispatch(p) = "respond" /\ variant = "slackbot" ->
                 /\ requests' = Append(requests,
                      [payload |-> p, hpc |-> "emit", response |-> None])
                 /\ UNCHANGED bg
            [] Dispatch(p) = "respond" /\ variant = "chatbot" ->
                 /\ requests' = Append(requests,
                      [payload |-> p, hpc |-> "responded",
                       response |-> [status |-> "ok"]])
                 /\ bg' = Append(bg, NewBg(r, p))
    /\ UNCHANGED <<variant, CACHE, posted>>
    /\ UNCHANGED notSlackVars

\* slackbot.py: emit_any_prefect_event is over; the task is created and the
\* handler returns.
EmitDone(r) ==
    /\ requests[r].hpc = "emit"
    /\ requests' = [requests EXCEPT ![r].hpc = "responded",
                                    ![r].response = [status |-> "ok"]]
    /\ bg' = Append(bg, NewBg(r, requests[r].payload))
    /\ UNCHANGED <<variant, CACHE, posted>>
    /\ UNCHANGED notSlackVars

\* The task begins: chatbot.py runs to bot.run or to its return; slackbot.py
\* first waits for get_channel_name and get_user_name.
BgStart(t) ==
    /\ bg[t].pc = "created"
    /\ bg' = [bg EXCEPT ![t] = IF variant = "slackbot"
                               THEN [bg[t] EXCEPT !.pc = "lookup"]
                               ELSE Decide(bg[t])]
    /\ UNCHANGED <<variant, requests, CACHE, posted>>
    /\ UNCHANGED notSlackVars

\* slackbot.py: the two names have arrived.
BgLookedUp(t) ==
    /\ bg[t].pc = "lookup"
    /\ bg' = [bg EXCEPT ![t] = Decide(bg[t])]
    /\ UNCHANGED <<variant, requests, CACHE, posted>>
    /\ UNCHANGED notSlackVars

\* bot.run has returned: the history is cached and the message is to be
\* posted.  slackbot.py calls post_slack_message with channel=, which the
\* function of utilities/slack.py does not take (channel_id): a TypeError.
BotReturned(t) ==
    /\ bg[t].pc = "running"
    /\ LET h == bg[t].history \o Exchange(t)
       IN /\ CACHE' = Put(CACHE, bg[t].thread, h)
          /\ bg' = [bg EXCEPT ![t].history = h,
                              ![t].pc = IF variant = "slackbot"
                                        THEN "failed" ELSE "posting"]
    /\ UNCHANGED <<variant, requests, posted>>
    /\ UNCHANGED notSlackVars

\* chatbot.py: _post_slack_message has posted, the task returns.
Posted(t) ==
    /\ bg[t].pc = "posting"
    /\ posted' = Append(posted,
         [message |-> <<"answer", t>>,
          channel |-> Get(Get(bg[t].payload, "event", EmptyMap), "channel", ""),
          thread_ts |-> bg[t].thread])
    /\ bg' = [bg EXCEPT ![t].pc = "returned"]
    /\ UNCHANGED <<variant, requests, CACHE>>
    /\ UNCHANGED notSlackVars

SlackNext ==
    \/ \E p \in Payloads : HandleMessage(p)
    \/ \E r \in 1..Len(requests) : EmitDone(r)
    \/ \E t \in 1..Len(bg) : BgStart(t)
    \/ \E t \in 1..Len(bg) : BgLookedUp(t)
    \/ \E t \in 1..Len(bg) : BotReturned(t)
    \/ \E t \in 1..Len(bg) : Posted(t)

SpecSlackbot == SlackInit /\ [][SlackNext]_vars

----------------------------------------------------------------------------
\* WatchLLM (src/examples/flows/watch_llm.py)

\* The patched class and its direct subclasses, patch_cls.__subclasses__().
PatchCls == "ChatLLM"
Subclasses == {"SubA", "SubB"}
Classes == {PatchCls} \cup Subclasses

\* A class that does not define the method itself.
NoAttr == [no_attr |-> TRUE]

\* The function a class defines, and the one the decorator makes of a
\* function.
Defined(c) == [defined_in |-> c]
Wrapped(f) == [wraps |-> f]

\* getattr(cls, method_name): the class's own attribute, or else the one of
\* the class it inherits from.
GetAttr(d, c) == IF d[c] # NoAttr THEN d[c] ELSE d[PatchCls]

\* The orders in which a set can be iterated.
Orders(S) ==
    {o \in [1..Cardinality(S) -> S] : \A c \in S : \E k \in DOMAIN o : o[k] = c}

WatchInit ==
    /\ ChunkerIdle
    /\ MinimapIdle
    /\ ExcerptIdle
    /\ LoaderIdle
    /\ SlackIdle
    /\ SearchIdle
    /\ overrides \in SUBSET Subclasses
    /\ cls_dict = [c \in Classes |->
         IF c = PatchCls \/ c \in overrides THEN Defined(c) ELSE NoAttr]
    /\ patched_methods = <<>>
    /\ to_patch = <<>>
    /\ to_reset = <<>>
    /\ wpc = "outside"
    /\ enters = 0

\* Lines 67-72: __enter__ up to its loop over the set {patch_cls,
\* *patch_cls.__subclasses__()}, which is iterated in some order.
Enter ==
    /\ wpc = "outside"
    /\ enters < MaxEnters
    /\ to_patch' \in Orders(Classes)
    /\ wpc' = "entering"
    /\ enters' = enters + 1
    /\ UNCHANGED <<overrides, cls_dict, patched_methods, to_reset>>
    /\ UNCHANGED notWatchVars

\* Lines 73-77, 84-91: _patch_method for the next class of the loop.
PatchMethod ==
    /\ wpc = "entering"
    /\ to_patch # <<>>
    /\ LET cls == Head(to_patch)
           original_method == GetAttr(cls_dict, cls)
       IN /\ cls_dict' = [cls_dict EXCEPT ![cls] = Wrapped(original_method)]
          /\ patched_methods' =
               Append(patched_methods, <<cls, original_method>>)
    /\ to_patch' = Tail(to_patch)
    /\ UNCHANGED <<overrides, to_reset, wpc, enters>>
    /\ UNCHANGED notWatchVars

\* Line 72: the loop is over, __enter__ returns.
EnterReturn ==
    /\ wpc = "entering"
    /\ to_patch = <<>>
    /\ wpc' = "inside"
    /\ UNCHANGED <<overrides, cls_dict, patched_methods, to_patch, to_reset,
                   enters>>
    /\ UNCHANGED notWatchVars

\* Lines 79-81: __exit__ begins its loop over self._patched_methods.
Exit ==
    /\ wpc = "inside"
    /\ to_reset' = patched_methods
    /\ wpc' = "exiting"
    /\ UNCHANGED <<overrides, cls_dict, patched_methods, to_patch, enters>>
    /\ UNCHANGED notWatchVars

\* Lines 81-82: setattr(cls, method_name, original_method) for the next
\* entry.
ResetMethod ==
    /\ wpc = "exiting"
    /\ to_reset # <<>>
    /\ cls_dict' = [cls_dict EXCEPT ![Head(to_reset)[1]] = Head(to_reset)[2]]
    /\ to_reset' = Tail(to_reset)
    /\ UNCHANGED <<overrides, patched_methods, to_patch, wpc, enters>>
    /\ UNCHANGED notWatchVars

\* Line 81: the loop is over, __exit__ returns.
ExitReturn ==
    /\ wpc = "exiting"
    /\ to_reset = <<>>
    /\ wpc' = "outside"
    /\ UNCHANGED <<overrides, cls_dict, patched_methods, to_patch, to_reset,
                   enters>>
    /\ UNCHANGED notWatchVars

WatchNext ==
    \/ Enter
    \/ PatchMethod
    \/ EnterReturn
    \/ Exit
    \/ ResetMethod
    \/ ExitReturn

SpecWatchLLM == WatchInit /\ [][WatchNext]_vars

----------------------------------------------------------------------------
\* search_slack_messages (src/src/marvin_recipes/utilities/slack.py)

\* Python's None where the other values are strings.
NoneStr == "<None>"

\* max_messages: none, a few, and more than a page holds.
PageLimit == 10
MaxMessagesValues == 0..MaxMessages \cup {PageLimit + 2}

\* A response of search.messages: an HTTP error, or some matches (as many
\* as the server likes) and a next cursor: none, the empty string, or one.
Match == [text |-> "t", permalink |-> "p"]
Responses ==
    {[ok |-> FALSE]}
    \cup {[ok |-> TRUE, matches |-> [k \in 1..n |-> Match], next_cursor |-> c] :
            n \in 0..MaxMatches, c \in {NoneStr, "", "cursor"}}

\* Python's truth of a cursor.
Truthy(c) == c # NoneStr /\ c # ""

Min(a, b) == IF a <= b THEN a ELSE b

\* Lines 159-165: the params of a page request.
Params(collected, cursor, ch) ==
    [limit |-> Min(max_messages - collected, PageLimit),
     channel |-> IF Truthy(ch) THEN ch ELSE NoneStr,
     cursor |-> IF Truthy(cursor) THEN cursor ELSE NoneStr]

\* Lines 175-181: the matches as they are appended.
Collected(matches) ==
    [k \in 1..Len(matches) |->
        [content |-> Get(matches[k], "text", ""),
         permalink |-> Get(matches[k], "permalink", "")]]

\* A slip: everything collected is returned.
SearchResult_Untruncated(msgs, n) == msgs

\* Line 190: all_messages[:max_messages].
SearchResult(msgs, n) == Slice(msgs, 0, n)

SearchInit ==
    /\ ChunkerIdle
    /\ MinimapIdle
    /\ ExcerptIdle
    /\ LoaderIdle
    /\ SlackIdle
    /\ WatchIdle
    /\ max_messages \in MaxMessagesValues
    /\ channel \in {NoneStr, "C1"}
    /\ all_messages = <<>>
    /\ next_cursor = NoneStr
    /\ sent = <<>>
    /\ spc = "loop"
    /\ found = <<>>

\* Lines 158-171: the loop goes on and requests a page.
RequestPage ==
    /\ spc = "loop"
    /\ Len(all_messages) < max_messages
    /\ Len(sent) < MaxPages
    /\ sent' = Append(sent, Params(Len(all_messages), next_cursor, channel))
    /\ spc' = "await"
    /\ UNCHANGED <<max_messages, channel, all_messages, next_cursor, found>>
    /\ UNCHANGED notSearchVars

\* Lines 173-188: the response; raise_for_status, the matches, the cursor
\* and the break.
PageResponse(resp) ==
    /\ spc = "await"
    /\ IF ~resp.ok
       THEN /\ spc' = "raised"
            /\ UNCHANGED <<all_messages, next_cursor>>
       ELSE /\ all_messages' = all_messages \o Collected(resp.matches)
            /\ next_cursor' = resp.next_cursor
            /\ spc' = IF Truthy(resp.next_cursor) THEN "loop" ELSE "return"
    /\ UNCHANGED <<max_messages, channel, sent, found>>
    /\ UNCHANGED notSearchVars

\* Line 158: enough has been collected.
SearchLoopEnd ==
    /\ spc = "loop"
    /\ Len(all_messages) >= max_messages
    /\ spc' = "return"
    /\ UNCHANGED <<max_messages, channel, all_messages, next_cursor, sent, found>>
    /\ UNCHANGED notSearchVars

\* Line 190.
SearchReturn ==
    /\ spc = "return"
    /\ found' = SearchResult(all_messages, max_messages)
    /\ spc' = "done"
    /\ UNCHANGED <<max_messages, channel, all_messages, next_cursor, sent>>
    /\ UNCHANGED notSearchVars

SearchNext ==
    \/ RequestPage
    \/ \E resp \in Responses : PageResponse(resp)
    \/ SearchLoopEnd
    \/ SearchReturn

SpecSearch == SearchInit /\ [][SearchNext]_vars

----------------------------------------------------------------------------
\* MultiLoader.load (src/src/marvin_recipes/loaders/base.py)

\* What the k-th loader's load() returns: two documents, one, or none.
DocsOf(k) == [j \in 1..((k + 1) % 3) |-> <<"doc", k, j>>]

\* batched(self.loaders, batch_size): the b-th batch, as the places in the
\* list of the loaders it holds; consecutive runs of batch_size loaders,
\* the last one shorter.
batched(n, size, b) ==
    {k \in 1..n : (b - 1) * size < k /\ k <= b * size}

\* The places of a set in increasing order.
RECURSIVE Ascending(_)
Ascending(S) ==
    IF S = {} THEN <<>>
    ELSE LET k == CHOOSE x \in S : \A y \in S : x <= y
         IN <<k>> \o Ascending(S \ {k})

\* The documents of the lists of the given loaders, one list after the other.
RECURSIVE DocsInOrder(_)
DocsInOrder(ks) ==
    IF ks = <<>> THEN <<>> ELSE loaders[Head(ks)] \o DocsInOrder(Tail(ks))

\* A slip: the lists are taken as the loads finish.
GatherBatch_AsCompleted(batch, order) == DocsInOrder(order)

\* Lines 28-30: the documents of asyncio.gather's result for a batch: one
\* list per loader, in the order of the batch.
GatherBatch(batch, order) == DocsInOrder(Ascending(batch))

LoaderInit ==
    /\ ChunkerIdle
    /\ MinimapIdle
    /\ ExcerptIdle
    /\ SlackIdle
    /\ WatchIdle
    /\ SearchIdle
    /\ \E n \in 0..MaxLoaders : loaders = [k \in 1..n |-> DocsOf(k)]
    /\ batch_size \in 1..MaxBatch
    /\ batch_no = 0
    /\ lstate = [k \in 1..Len(loaders) |-> "idle"]
    /\ finish_order = <<>>
    /\ loaded = <<>>
    /\ lpc = "next"

\* Lines 27-28: the next batch; a coroutine per loader of it is handed to
\* gather.
NextBatch ==
    /\ lpc = "next"
    /\ batched(Len(loaders), batch_size, batch_no + 1) # {}
    /\ batch_no' = batch_no + 1
    /\ lstate' = [k \in 1..Len(loaders) |->
         IF k \in batched(Len(loaders), batch_size, batch_no + 1)
         THEN "created" ELSE lstate[k]]
    /\ finish_order' = <<>>
    /\ lpc' = "gather"
    /\ UNCHANGED <<loaders, batch_size, loaded>>
    /\ UNCHANGED notLoaderVars

\* Line 28: a loader's load() begins.
LoadStart(k) ==
    /\ lpc = "gather"
    /\ lstate[k] = "created"
    /\ lstate' = [lstate EXCEPT ![k] = "loading"]
    /\ UNCHANGED <<loaders, batch_size, batch_no, finish_order, loaded, lpc>>
    /\ UNCHANGED notLoaderVars

\* Line 28: a loader's load() returns its documents.
LoadFinish(k) ==
    /\ lpc = "gather"
    /\ lstate[k] = "loading"
    /\ lstate' = [lstate EXCEPT ![k] = "done"]
    /\ finish_order' = Append(finish_order, k)
    /\ UNCHANGED <<loaders, batch_size, batch_no, loaded, lpc>>
    /\ UNCHANGED notLoaderVars

\* Lines 28-29: every load of the batch is over; gather returns and the
\* documents go into the list.
BatchGathered ==
    /\ lpc = "gather"
    /\ \A k \in batched(Len(loaders), batch_size, batch_no) : lstate[k] = "done"
    /\ loaded' = loaded \o
         GatherBatch(batched(Len(loaders), batch_size, batch_no), finish_order)
    /\ lpc' = "next"
    /\ UNCHANGED <<loaders, batch_size, batch_no, lstate, finish_order>>
    /\ UNCHANGED notLoaderVars

\* Lines 25-31: no batch is left, the list is returned.
LoadReturn ==
    /\ lpc = "next"
    /\ batched(Len(loaders), batch_size, batch_no + 1) = {}
    /\ lpc' = "done"
    /\ UNCHANGED <<loaders, batch_size, batch_no, lstate, finish_order, loaded>>
    /\ UNCHANGED notLoaderVars

LoaderNext ==
    \/ NextBatch
    \/ \E k \in 1..Len(loaders) : LoadStart(k)
    \/ \E k \in 1..Len(loaders) : LoadFinish(k)
    \/ BatchGathered
    \/ LoadReturn

SpecMultiLoader == LoaderInit /\ [][LoaderNext]_vars

----------------------------------------------------------------------------
\* What the properties of the minimap speak of

\* The level of a heading line: its one to five leading "#", followed by a
\* space; 0 for any other line.
LeadingHashes(line) ==
    Cardinality({k \in 1..Len(line) : \A j \in 1..k : line[j] = "#"})

ClaimLevel(line) ==
    LET h == LeadingHashes(line)
    IN IF h \in 1..5 /\ Len(line) > h /\ line[h + 1] = " " THEN h ELSE 0

IsFence(line) ==
    Len(line) >= 3 /\ \A j \in 1..3 : line[j] = Backtick

\* The heading stack as a value: level L set, the levels at and below it
\* removed first.
Evict(stack, level, line) ==
    [l \in 1..5 |-> IF l = level THEN line
                    ELSE IF l > level THEN Missing ELSE stack[l]]

\* The entries of a stack for the levels 1 to 5 in order, absent levels
\* skipped, joined by newlines.
RECURSIVE RenderFrom(_, _)
RenderFrom(stack, l) ==
    IF l > 5 THEN <<>>
    ELSE IF stack[l] = Missing THEN RenderFrom(stack, l + 1)
    ELSE LET rest == RenderFrom(stack, l + 1)
         IN IF rest = <<>> THEN stack[l] ELSE stack[l] \o <<Newline>> \o rest

\* The headers current at character n of the text made of the lines ls: the
\* stack after the last heading line, outside code blocks, that begins at or
\* before character n, the newline after each line counted.
RECURSIVE HeadersAt(_, _, _, _, _)
HeadersAt(ls, pos, incode, stack, n) ==
    IF ls = <<>> \/ pos > n THEN stack
    ELSE LET line == Head(ls)
             inc == IF IsFence(line) THEN ~incode ELSE incode
             st == IF ~inc /\ ClaimLevel(line) >= 1
                   THEN Evict(stack, ClaimLevel(line), line) ELSE stack
         IN HeadersAt(Tail(ls), pos + Len(line) + 1, inc, st, n)

\* The step of the scan that takes a line.
ScanStep == mpc = "scan" /\ line_no < Len(lines) /\ line_no' = line_no + 1
NextLine == lines[line_no + 1]

\* C11: the returned function outputs, for any character position n of the
\* document, the headers current at that position.
C11_LookupGivesCurrentHeaders ==
    (mpc = "looked" /\ lookup_n >= 0) =>
        lookup_out =
          [returned |-> RenderFrom(HeadersAt(lines, 0, FALSE, EmptyDict, lookup_n), 1)]

\* C12: a heading line of level L outside a code block removes every entry
\* of the current stack at level >= L, sets level L to the line and keeps
\* the levels below L; for the lines # A, ## B, ### C, ## D, text the stack
\* looked up at the offset of text is # A, ## D.
C12_HeadingEviction ==
    /\ [][(ScanStep /\ ~scan.in_code_block /\ ClaimLevel(NextLine) >= 1) =>
            scan'.heap[scan'.current_stack] =
              Evict(scan.heap[scan.current_stack], ClaimLevel(NextLine), NextLine)]_vars
    /\ []((mpc = "looked" /\ content = EvictionExample /\ lookup_n \in {16, 20}) =>
            lookup_out = [returned |->
              <<"#", " ", "A", Newline, "#", "#", " ", "D">>])

\* C12 witness: the lookup of the example at the offset of text.
C12_Witness ==
    /\ mpc = "looked"
    /\ content = EvictionExample
    /\ lookup_n = 16
    /\ lookup_out = [returned |-> <<"#", " ", "A", Newline, "#", "#", " ", "D">>]

\* C13: a snapshot is a copy of the stack as it stood after its own heading
\* line: taking a later line never changes the content of a snapshot
\* recorded before.
C13_SnapshotsNeverChange ==
    [][ScanStep =>
         \A p \in scan.minimap : \A q \in scan'.minimap :
            q[1] = p[1] => scan'.heap[q[2]] = scan.heap[p[2]]]_vars

\* C14: for n >= 0 the lookup takes the snapshot with the largest recorded
\* offset <= n and returns its entries for the levels 1 to 5 in order, absent
\* levels skipped, joined by newlines; with no snapshot at or before n it
\* returns the empty string.
C14_LookupNearestSnapshot ==
    (mpc = "looked" /\ lookup_n >= 0) =>
        LET below == {p \in scan.minimap : p[1] <= lookup_n}
        IN IF below = {} THEN lookup_out = [returned |-> <<>>]
           ELSE \E p \in below :
                  /\ \A q \in below : q[1] <= p[1]
                  /\ lookup_out = [returned |-> RenderFrom(scan.heap[p[2]], 1)]

\* C14 witness: lookup(0) of a document whose first heading is recorded at
\* offset 4 has returned the empty string.
C14_Witness ==
    /\ mpc = "looked"
    /\ lookup_n = 0
    /\ scan.minimap # {}
    /\ \A p \in scan.minimap : p[1] >= 4
    /\ lookup_out = [returned |-> <<>>]

\* C15: every line beginning with three backticks flips the flag of the
\* code block; a heading-looking line inside a code block changes neither
\* the stack nor the snapshots; a heading outside one records a snapshot.
C15_CodeFenceSuppression ==
    [][ScanStep =>
         /\ scan'.in_code_block =
              (IF IsFence(NextLine) THEN ~scan.in_code_block
               ELSE scan.in_code_block)
         /\ (scan.in_code_block /\ ClaimLevel(NextLine) >= 1) =>
              /\ scan'.minimap = scan.minimap
              /\ scan'.heap = scan.heap
              /\ scan'.current_stack = scan.current_stack
         /\ (~scan.in_code_block /\ ClaimLevel(NextLine) >= 1) =>
              Cardinality(scan'.minimap) = Cardinality(scan.minimap) + 1]_vars

\* C15 witness: fence, ## B, fence, ## D scanned: the only snapshot is that
\* of ## D, at offset 10.
C15_Witness ==
    /\ mpc = "built"
    /\ lines = << <<Backtick, Backtick, Backtick>>, <<"#", "#", " ", "B">>,
                  <<Backtick, Backtick, Backtick>>, <<"#", "#", " ", "D">> >>
    /\ ~scan.in_code_block
    /\ {p[1] : p \in scan.minimap} = {10}
    /\ Render(StackAt(scan, 10)) = <<"#", "#", " ", "D">>

\* C16: a lookup with n < 0 fails with an error and returns no text.
C16_NegativeOffsetFails ==
    (mpc = "looked" /\ lookup_n < 0) =>
        /\ "raised" \in DOMAIN lookup_out
        /\ "returned" \notin DOMAIN lookup_out

\* C16 witness: lookup(-1) of a document with a heading has failed.
C16_Witness ==
    /\ mpc = "looked"
    /\ lookup_n = -1
    /\ scan.minimap # {}
    /\ lookup_out = [raised |-> "ValueError: n must be >= 0"]

----------------------------------------------------------------------------
\* What the properties of document_to_excerpts speak of

\* The chunks split_text returned to document_to_excerpts, as
\* (chunk text, character offset) pairs.
text_chunks == result

\* The minimap section of a rendered excerpt that carries minimap text m.
MinimapSection(m) == IF m = <<>> THEN NoSection ELSE m

\* The minimap lookup of a document's text at position n.
LookupAt(doc, n) == get_location_fn(create_minimap_fn(doc.text), n).returned

\* What the claims list of an excerpt: text, keywords, parent id.
Listed(e) ==
    [text |-> e.text, keywords |-> e.keywords,
     parent_document_id |-> e.parent_document_id]

\* The excerpt of the k-th chunk when its task runs alone.
ExcerptAlone(k) ==
    NewExcerpt(document, k,
               RenderExcerpt(document, text_chunks[k][1],
                             MinimapFor(document, k - 1)),
               extract_keywords(text_chunks[k][1]))

\* C17 as stated: over a markdown document, the minimap text of each excerpt
\* is the minimap lookup at the character offset split_text returned for its
\* chunk.
C17_LookupUsesChunkOffset ==
    (epc = "done" /\ IsMarkdown(document)) =>
        \A k \in 1..Len(excerpts) :
            excerpts[k].text.minimap =
                MinimapSection(LookupAt(document, text_chunks[k][2]))

\* C18: document_to_excerpts returns one excerpt per chunk of split_text, the
\* k-th rendered from the k-th chunk's text, each with parent_document_id
\* equal to the id of the source document.
C18_OneExcerptPerChunkInOrder ==
    epc = "done" =>
        /\ Len(excerpts) = Len(text_chunks)
        /\ \A k \in 1..Len(excerpts) :
            /\ excerpts[k].type = "excerpt"
            /\ excerpts[k].text.excerpt_text = text_chunks[k][1]
            /\ excerpts[k].parent_document_id = document.id

\* C18 witness: a call has returned three or more excerpts.
C18_Witness ==
    /\ epc = "done"
    /\ Len(text_chunks) >= 3
    /\ Len(excerpts) = Len(text_chunks)
    /\ excerpts[3].parent_document_id = document.id

\* C19: whatever the interleaving of the gathered tasks, the returned list
\* (texts, keywords, parent ids, order) is the one the tasks give when each
\* runs alone, and a step of one task changes neither the document, nor the
\* chunk list, nor anything of another task (its minimap text included).
C19_SameUnderEveryInterleaving ==
    /\ [](epc = "done" =>
            /\ Len(excerpts) = Len(text_chunks)
            /\ \A k \in 1..Len(excerpts) :
                Listed(excerpts[k]) = Listed(ExcerptAlone(k)))
    /\ [][epc = "gather" =>
            /\ document' = document
            /\ text_chunks' = text_chunks
            /\ Len(tasks') = Len(tasks)
            /\ \A k \in 1..Len(tasks) :
                tasks'[k] # tasks[k] =>
                    \A j \in (1..Len(tasks)) \ {k} : tasks'[j] = tasks[j]]_vars

\* C19 witness: a call over a markdown document has returned, its tasks
\* having finished in another order than they were made (the third first,
\* then the first), with different texts in the first and third excerpts.
C19_Witness ==
    /\ epc = "done"
    /\ IsMarkdown(document)
    /\ Len(completed) >= 3
    /\ completed[1] = 3
    /\ completed[2] = 1
    /\ excerpts[1].text.excerpt_text # excerpts[3].text.excerpt_text

\* C20 as stated: one call over a markdown document with one chunk or more
\* constructs the minimap exactly once, before the first lookup.
C20_MinimapBuiltOncePerDocument ==
    (IsMarkdown(document) /\ epc \in {"gather", "done"} /\ Len(tasks) >= 1) =>
        /\ builds <= 1
        /\ (\E k \in 1..Len(tasks) : tasks[k].pc # "created") => builds = 1
        /\ epc = "done" => builds = 1

\* A document that is itself an excerpt.
IsExcerpt(d) == d.type = "excerpt"

\* C21 as stated: after any sequence of document_to_excerpts calls, no
\* returned excerpt has as its parent a document that is itself an excerpt.
C21_DerivationOneLevelOnly ==
    \A k \in 1..Len(excerpts) :
        excerpts[k].parent_document_id = document.id => ~IsExcerpt(document)

----------------------------------------------------------------------------
\* What the further properties of split_text speak of

\* The number of tokens in the window that starts at token index s.
WindowLen(s) ==
    IF s + chunk_size < Len(tokens) THEN chunk_size ELSE Len(tokens) - s

\* The index (from 0) in the token list of the token at place p of the k-th
\* chunk: the k-th window starts at (k - 1) * step, and what lies beyond that
\* window in the chunk is the next window, merged into it.
SourceIndex(k, p) ==
    LET s == (k - 1) * FloorStep
    IN IF p <= WindowLen(s) THEN s + p - 1
       ELSE s + FloorStep + (p - WindowLen(s)) - 1

\* Token j (from 0) of the input is in the k-th chunk.
TokenInChunk(j, k) ==
    \E p \in 1..Len(chunks[k].toks) :
        SourceIndex(k, p) = j /\ chunks[k].toks[p] = tokens[j + 1]

\* C22: for chunk_size > 0 and overlap in [0,1] with step >= 1, once the
\* chunks are final every token of the input, by index, is in one chunk or
\* more, and the returned texts are those chunks, merged or not.
C22_NoTokenDropped ==
    (pc \in {"return", "done"} /\ chunk_size > 0 /\ OverlapInUnit
        /\ FloorStep >= 1) =>
        /\ \A j \in 0..(Len(tokens) - 1) :
            \E k \in 1..Len(chunks) : TokenInChunk(j, k)
        /\ pc = "done" =>
            /\ Len(result) = Len(chunks)
            /\ \A k \in 1..Len(result) :
                (IF return_index THEN result[k][1] ELSE result[k])
                    = detokenize(chunks[k].toks)

\* C22 witness: a call with overlapping windows has merged its last window
\* and returned, the merged chunk holding the last token of the input.
C22_Witness ==
    /\ pc = "done"
    /\ chunk_size > 0
    /\ OverlapInUnit
    /\ FloorStep >= 1
    /\ FloorStep < chunk_size
    /\ Len(chunks) >= 2
    /\ Len(chunks) = Cardinality(WindowStarts) - 1
    /\ TokenInChunk(Len(tokens) - 1, Len(chunks))
    /\ Len(chunks[Len(chunks)].toks) > chunk_size

----------------------------------------------------------------------------
\* What the further properties of the minimap speak of

\* The characters of the first k lines, newlines left out.
RECURSIVE CharsBefore(_, _)
CharsBefore(ls, k) == IF k = 0 THEN 0 ELSE CharsBefore(ls, k - 1) + Len(ls[k])

\* Line k lies inside a fenced code block: the fences up to and including it
\* are odd in number.
InsideFence(ls, k) == Cardinality({j \in 1..k : IsFence(ls[j])}) % 2 = 1

\* The heading lines of level 1 to 5 outside code blocks among the first k.
RecordedLines(ls, k) ==
    {j \in 1..k : ClaimLevel(ls[j]) >= 1 /\ ~InsideFence(ls, j)}

\* C23: the snapshots are those of the heading lines of level 1 to 5 outside
\* fenced code blocks, one each and no other, each at the count of the
\* characters of all the lines before it, newlines left out, whatever those
\* lines are; checked after every line of the scan and when it is over.
C23_SnapshotsAtHeadingOffsets ==
    mpc \in {"scan", "built"} =>
        /\ {p[1] : p \in scan.minimap} =
             {CharsBefore(lines, j - 1) : j \in RecordedLines(lines, line_no)}
        /\ Cardinality(scan.minimap) = Cardinality(RecordedLines(lines, line_no))
        /\ scan.characters = CharsBefore(lines, line_no)

\* C23 witness: #x, # A, fence, ## B scanned: the one snapshot is that of
\* # A, at 2, the characters of #x.
C23_Witness ==
    /\ mpc = "built"
    /\ lines = << <<"#", "x">>, <<"#", " ", "A">>,
                  <<Backtick, Backtick, Backtick>>, <<"#", "#", " ", "B">> >>
    /\ {p[1] : p \in scan.minimap} = {2}
    /\ scan.characters = 12

----------------------------------------------------------------------------
\* What the checks of the arguments of split_text speak of

\* C24: a call with chunk_overlap < 0 or > 1 fails with the error
\* chunk_overlap must be between 0 and 1, before any token or chunk is made,
\* whatever the text and chunk_size; a chunk_overlap of None becomes 0.1 and,
\* in a call that goes on, a last_chunk_threshold of None becomes 0.25, other
\* values being kept, and the rest of the call runs on those values.
C24_OverlapCheckedAndDefaults ==
    /\ [](~OverlapInUnit =>
            /\ pc \in {"start", "error"}
            /\ pc = "error" =>
                 error = "ValueError: chunk_overlap must be between 0 and 1"
            /\ tokens = <<>>
            /\ chunks = <<>>
            /\ result = <<>>)
    /\ [][pc = "start" =>
            /\ chunk_overlap' =
                 (IF chunk_overlap = None THEN Frac(1, 10) ELSE chunk_overlap)
            /\ OverlapInUnit =>
                 /\ pc' = "tokenize"
                 /\ last_chunk_threshold' =
                      (IF last_chunk_threshold = None THEN Frac(1, 4)
                       ELSE last_chunk_threshold)]_vars
    /\ [](pc \notin {"start", "error"} =>
            chunk_overlap # None /\ last_chunk_threshold # None)

\* C24 witness: a call with a text, a positive chunk_size and overlap 5/4 has
\* failed on the check.
C24_Witness ==
    /\ text # <<>>
    /\ chunk_size > 0
    /\ chunk_overlap = Frac(5, 4)
    /\ pc = "error"
    /\ error = "ValueError: chunk_overlap must be between 0 and 1"
    /\ chunks = <<>>

----------------------------------------------------------------------------
\* What the properties of the slackbot speak of

PayloadType(r) == Get(requests[r].payload, "type", "")

\* The response tasks started for the r-th request.
TasksOf(r) == {t \in 1..Len(bg) : bg[t].request = r}

Finished(t) == bg[t].pc \in {"returned", "failed"}

\* The mentions of a text, in order.
MentionsIn(message) == SelectSeq(message, LAMBDA w : w \in SlackMentions)

\* The event of a task has no user mention, or its first one is not the bot.
NotForBot(t) ==
    LET ms == MentionsIn(bg[t].payload.event.text)
    IN ms = <<>> \/ MentionedId(Head(ms)) # bg[t].payload.authorizations[1].user_id

\* The key of the thread of an event: thread_ts, or ts when it has none.
ThreadKey(p) ==
    IF p.event.thread_ts # "" THEN p.event.thread_ts ELSE p.event.ts

\* A history holds the exchange of task t.
HoldsExchange(h, t) ==
    \E j \in 1..(Len(h) - 1) :
        /\ h[j] = [role |-> "user", content |-> bg[t].message]
        /\ h[j + 1] = [role |-> "ai", content |-> <<"answer", t>>]

\* C25: handle_message answers url_verification with the payload's challenge
\* and starts no task; fails with HTTP 400 on any type other than
\* url_verification and event_callback and starts no task; on event_callback
\* starts one generate_ai_response task and returns status ok, the task not
\* having run when it returns.
C25_DispatchOnPayloadType ==
    /\ [](\A r \in 1..Len(requests) :
            /\ PayloadType(r) = "url_verification" =>
                 /\ requests[r].response =
                      [challenge |-> requests[r].payload.challenge]
                 /\ TasksOf(r) = {}
            /\ PayloadType(r) \notin {"url_verification", "event_callback"} =>
                 /\ requests[r].response =
                      [status_code |-> 400, detail |-> "Invalid event type"]
                 /\ TasksOf(r) = {}
            /\ PayloadType(r) = "event_callback" =>
                 IF requests[r].hpc = "responded"
                 THEN /\ requests[r].response = [status |-> "ok"]
                      /\ Cardinality(TasksOf(r)) = 1
                 ELSE TasksOf(r) = {})
    /\ [][\A r \in 1..Len(requests') :
            (/\ requests'[r].response = [status |-> "ok"]
             /\ (r > Len(requests) \/ requests[r].hpc # "responded")) =>
                \E t \in 1..Len(bg') :
                    bg'[t].request = r /\ bg'[t].pc = "created"]_vars

\* C25 witness: the first request, an event_callback, was answered ok and
\* its task is still waiting for the bot; the second, a url_verification,
\* was answered with the challenge.
C25_Witness ==
    /\ Len(requests) = 2
    /\ PayloadType(1) = "event_callback"
    /\ requests[1].response = [status |-> "ok"]
    /\ \E t \in TasksOf(1) : bg[t].pc = "running"
    /\ requests[2].response = [challenge |-> "c1"]
    /\ TasksOf(2) = {}

\* C26 as stated: once every task of a thread has finished, the history
\* cached under the thread's key holds the exchange of every event of the
\* thread addressed to the bot, whether the tasks ran one after the other or
\* together.
C26_ThreadHistoryComplete ==
    \A k \in {ThreadKey(bg[t].payload) : t \in 1..Len(bg)} :
        LET ts == {t \in 1..Len(bg) : ThreadKey(bg[t].payload) = k}
        IN (\A t \in ts : Finished(t)) =>
             \A t \in ts : ~NotForBot(t) =>
                 /\ k \in DOMAIN CACHE
                 /\ HoldsExchange(CACHE[k], t)

\* C27: a task whose event has no user mention, or whose first mention is
\* not the bot, never runs the bot, and no step of it changes the cache or
\* posts a message.
C27_SkippedEventsChangeNothing ==
    /\ [](\A t \in 1..Len(bg) :
            NotForBot(t) => bg[t].pc \in {"created", "lookup", "returned"})
    /\ [][\A t \in 1..Len(bg) :
            (NotForBot(t) /\ bg'[t] # bg[t]) =>
                /\ CACHE' = CACHE
                /\ posted' = posted]_vars

\* C27 witness: an event that mentions another user first and the bot second
\* was skipped, with nothing cached and nothing posted.
C27_Witness ==
    /\ Len(bg) >= 1
    /\ bg[1].payload.event.text = <<"<@U1>", "<@UBOT>">>
    /\ bg[1].pc = "returned"
    /\ CACHE = EmptyMap
    /\ posted = <<>>

----------------------------------------------------------------------------
\* What the property of WatchLLM speaks of

\* The function the method's name gave on a class before any __enter__.
LookupBefore(c) ==
    IF c = PatchCls \/ c \in overrides THEN Defined(c) ELSE Defined(PatchCls)

\* C28 as stated: after __exit__, whatever the number of enter / exit pairs,
\* the method's name gives on the patched class and on each of its
\* subclasses, those that only inherit the method included, the function it
\* gave before __enter__.
C28_ExitRestoresMethods ==
    (wpc = "outside" /\ enters >= 1) =>
        \A c \in Classes : GetAttr(cls_dict, c) = LookupBefore(c)

----------------------------------------------------------------------------
\* What the property of search_slack_messages speaks of

\* C29: the returned list has at most max_messages messages; a page request
\* asks for no more than the smaller of 10 and what is still to collect; and
\* no page is requested once max_messages are collected or the last response
\* carried no next cursor.
C29_AtMostMaxMessages ==
    /\ [](spc = "done" => Len(found) <= max_messages)
    /\ [][Len(sent') > Len(sent) =>
            /\ Len(sent') = Len(sent) + 1
            /\ sent'[Len(sent')].limit <= max_messages - Len(all_messages)
            /\ sent'[Len(sent')].limit <= 10
            /\ Len(all_messages) < max_messages
            /\ Len(sent) > 0 => next_cursor \notin {NoneStr, ""}]_vars

\* C29 witness: a call for 3 messages has requested two pages, was sent more
\* than it asked for, and returned 3.
C29_Witness ==
    /\ spc = "done"
    /\ max_messages = 3
    /\ Len(sent) = 2
    /\ sent[2].limit < sent[1].limit
    /\ Len(all_messages) > max_messages
    /\ Len(found) = 3

----------------------------------------------------------------------------
\* What the property of MultiLoader.load speaks of

\* The load() calls in flight: handed to gather and not yet returned.
InFlight == {k \in 1..Len(loaders) : lstate[k] \in {"created", "loading"}}

\* The batch, from 0, that the k-th loader of the list falls in.
BatchOf(k) == (k - 1) \div batch_size

\* The documents of the loaders 1..n, in that order.
RECURSIVE DocsUpTo(_)
DocsUpTo(n) == IF n = 0 THEN <<>> ELSE DocsUpTo(n - 1) \o loaders[n]

====
